---- MODULE Spec2Model ----
(***************************************************************************)
(* A state-machine model of the note-taking service of src/main.py:        *)
(* registration, login, bearer-token verification and the owner-gated      *)
(* note operations, over the relational store (tables user and note).      *)
(*                                                                         *)
(* Under Spec and SpecAuth requests come one at a time: every HTTP handler  *)
(* is one atomic action (one session, one commit).  Under SpecRegister and  *)
(* SpecRace requests overlap: a handler runs statement by statement on its  *)
(* own session, and every statement reads and writes the committed tables.  *)
(* Optional values are sequences of length 0 (None) or 1.                  *)
(* Time is counted in minutes.                                             *)
(***************************************************************************)
EXTENDS Integers, Sequences, FiniteSets, TLC

VARIABLES
    users,      \* table "user": sequence of User rows, in primary-key order
    notes,      \* table "note": sequence of Note rows, in primary-key order
    noteSeq,    \* last value of the note id sequence (PostgreSQL only)
    dialect,    \* the database behind DATABASE_URL: "sqlite" or "postgresql"
    now,        \* datetime.utcnow(), in minutes
    tokens,     \* what clients hold of the tokens /login returned to them
    accounts,   \* what clients remember of their accepted registrations
    last,       \* the last request handled in one step, and its response
    sessions,   \* the requests in flight, each on its own database session
    deleted     \* history: the ids of the notes a DELETE has removed

vars ==
    <<users, notes, noteSeq, dialect, now, tokens, accounts, last, sessions,
      deleted>>

----------------------------------------------------------------------------
(* Bounds of the model *)

MaxUsers == 2
MaxNoteId == 2
MaxTime == 1
MaxDrift == 1
MaxTokens == 2

----------------------------------------------------------------------------
(* Program constants *)

ACCESS_TOKEN_EXPIRE_MINUTES == 30

SECRET_KEY == "your-secret-key-change-in-production"

Dialects == {"sqlite", "postgresql"}

----------------------------------------------------------------------------
(* Inputs *)

None == <<>>

Some(x) == <<x>>

Usernames == {"alice", "bob"}

Emails == {"a@x.com", "b@x.com"}

\* a password is a sequence of characters
Passwords == {<<"p", "1">>, <<"p", "2">>}

\* A JSON string is a sequence of characters; a JSON number is tagged "int".
JsonStr(chars) == [t |-> "str", v |-> chars]

JsonInt(digits) == [t |-> "int", v |-> digits]

Whitespace == {" "}

\* request bodies of POST /notes and PUT /notes/{id} that NoteCreate accepts
ValidNoteInputs ==
    { [content |-> Some(JsonStr(<<"a">>)), is_completed |-> None, tags |-> None],
      [content |-> Some(JsonStr(<<" ", "b">>)), is_completed |-> Some(TRUE),
       tags |-> Some("work")] }

\* and bodies it rejects: content missing, not a string, empty, blank
InvalidNoteInputs ==
    { [content |-> None, is_completed |-> Some(FALSE), tags |-> None],
      [content |-> Some(JsonInt(<<"1", "2", "3">>)), is_completed |-> Some(FALSE),
       tags |-> None],
      [content |-> Some(JsonStr(<<>>)), is_completed |-> Some(FALSE),
       tags |-> Some("work")],
      [content |-> Some(JsonStr(<<" ">>)), is_completed |-> Some(TRUE),
       tags |-> None] }

NoteInputs == ValidNoteInputs \cup InvalidNoteInputs

\* bodies sent with requests whose credentials do not resolve to a user
ProbeNoteInputs ==
    { [content |-> Some(JsonStr(<<"a">>)), is_completed |-> None, tags |-> None],
      [content |-> Some(JsonStr(<<>>)), is_completed |-> Some(FALSE),
       tags |-> Some("work")] }

NoteIds == 1..MaxNoteId

\* registration bodies: every combination, and a few of them
Registrations ==
    [username : Usernames, email : Emails, password : Passwords]

SomeRegistrations ==
    { [username |-> "alice", email |-> "a@x.com", password |-> <<"p", "1">>],
      [username |-> "bob", email |-> "b@x.com", password |-> <<"p", "2">>],
      [username |-> "alice", email |-> "b@x.com", password |-> <<"p", "2">>] }

----------------------------------------------------------------------------
(* Helpers on sequences of rows *)

Range(s) == { s[i] : i \in 1..Len(s) }

RECURSIVE SeqFilter(_, _)
SeqFilter(s, keep) ==
    IF s = <<>> THEN <<>>
    ELSE IF Head(s) \in keep THEN <<Head(s)>> \o SeqFilter(Tail(s), keep)
    ELSE SeqFilter(Tail(s), keep)

MaxId(rows) ==
    IF rows = <<>> THEN 0
    ELSE CHOOSE m \in { r.id : r \in Range(rows) } :
            \A r \in Range(rows) : r.id <= m

----------------------------------------------------------------------------
(* Password hashing: passlib's bcrypt context.  A hash carries the scheme,  *)
(* the salt drawn at hashing time and the digest of (salt, password).       *)

Digest(salt, password) == <<salt, password>>

hash_password(password, salt) ==
    <<"$2b$", salt, Digest(salt, password)>>

\* verify_password accepting any password
verify_password_any(plain_password, hashed_password) == TRUE

verify_password(plain_password, hashed_password) ==
    hashed_password[3] = Digest(hashed_password[2], plain_password)

----------------------------------------------------------------------------
(* Tokens.  A token is what jwt.encode produced or anything else a caller   *)
(* sends: it is well formed or not, was signed with some key, and carries   *)
(* an optional user_id and an expiry.                                       *)

Token(key, user_id, exp) ==
    [wellformed |-> TRUE, key |-> key, user_id |-> user_id, exp |-> exp]

Garbage ==
    [wellformed |-> FALSE, key |-> "", user_id |-> None, exp |-> 0]

create_access_token(data) ==
    Token(SECRET_KEY, data.user_id, now + ACCESS_TOKEN_EXPIRE_MINUTES)

\* jwt.decode accepting a token at the very instant of its expiry
jwt_decode_late(token, key) ==
    IF ~token.wellformed THEN "DecodeError"
    ELSE IF token.key # key THEN "InvalidSignatureError"
    ELSE IF token.exp < now THEN "ExpiredSignatureError"
    ELSE "payload"

\* jwt.decode: structure, then signature, then the exp claim
jwt_decode(token, key) ==
    IF ~token.wellformed THEN "DecodeError"
    ELSE IF token.key # key THEN "InvalidSignatureError"
    ELSE IF token.exp <= now THEN "ExpiredSignatureError"
    ELSE "payload"

HttpError(status, detail) ==
    [kind |-> "http", status |-> status, detail |-> detail, user_id |-> None]

\* an exception no handler of the request catches: global_exception_handler
Unhandled(exc) ==
    [kind |-> exc, status |-> 500, detail |-> "Internal server error",
     user_id |-> None]

\* The second except clause names jwt.JWTError, which the jwt module does not
\* define: looking it up while an invalid-token error is being handled raises
\* AttributeError, which leaves verify_token.
verify_token(token) ==
    LET r == jwt_decode(token, SECRET_KEY) IN
    IF r = "payload"
    THEN [kind |-> "payload", status |-> 200, detail |-> "",
          user_id |-> token.user_id]
    ELSE IF r = "ExpiredSignatureError"
    THEN HttpError(401, "Token has expired")
    ELSE Unhandled("AttributeError")

UserById(id) == SeqFilter(users, { u \in Range(users) : u.id = id })

\* get_current_user trusting the token's user_id without looking the user up
get_current_user_no_lookup(credentials) ==
    IF credentials = None THEN HttpError(401, "Not authenticated")
    ELSE LET payload == verify_token(credentials[1]) IN
         IF payload.kind # "payload" THEN payload
         ELSE IF payload.user_id = None \/ payload.user_id = Some(0)
         THEN HttpError(401, "Invalid token")
         ELSE [kind |-> "user", status |-> 200, detail |-> "",
               user_id |-> payload.user_id]

\* credentials: None (no Authorization header) or Some(token)
get_current_user(credentials) ==
    IF credentials = None THEN HttpError(401, "Not authenticated")
    ELSE LET payload == verify_token(credentials[1]) IN
         IF payload.kind # "payload" THEN payload
         ELSE IF payload.user_id = None \/ payload.user_id = Some(0)
         THEN HttpError(401, "Invalid token")
         ELSE IF UserById(payload.user_id[1]) = <<>>
         THEN HttpError(401, "User not found")
         ELSE [kind |-> "user", status |-> 200, detail |-> "",
               user_id |-> payload.user_id]

----------------------------------------------------------------------------
(* Responses *)

Response(op, status, detail, uid, note_id, body) ==
    [op |-> op, status |-> status, detail |-> detail, uid |-> uid,
     note_id |-> note_id, body |-> body]

\* the response of a request whose identity was not resolved
AuthFailure(op, auth, note_id) ==
    Response(op, auth.status, auth.detail, 0, note_id, <<>>)

----------------------------------------------------------------------------
(* Requests in flight.  A session holds the handler running on it, the    *)
(* statement it is at, its request, the row it loaded and, once the handler *)
(* has returned or raised, its response.                                    *)

Sessions == {"s1", "s2"}

Idle ==
    [op |-> "", pc |-> "idle", request |-> <<>>, note |-> None,
     response |-> Response("", 0, "", 0, 0, <<>>)]

----------------------------------------------------------------------------
(* State after construction: empty tables, no request in flight *)

Init ==
    /\ users = <<>>
    /\ notes = <<>>
    /\ noteSeq = 0
    /\ dialect \in Dialects
    /\ now = 0
    /\ tokens = {}
    /\ accounts = {}
    /\ last = Response("startup", 0, "", 0, 0, <<>>)
    /\ sessions = [s \in Sessions |-> Idle]
    /\ deleted = {}

----------------------------------------------------------------------------
(* POST /register *)

UserResponse(user) ==
    [id |-> user.id, username |-> user.username, email |-> user.email]

\* register without its email check
register_username_only(username, email, password, salt) ==
    IF \E u \in Range(users) : u.username = username
    THEN [response |-> Response("register", 400, "Username already exists", 0, 0, <<>>),
          users |-> users]
    ELSE LET new_user == [id |-> MaxId(users) + 1,
                          username |-> username,
                          email |-> email,
                          hashed_password |-> hash_password(password, salt)]
         IN [response |-> Response("register", 201, "", 0, 0, UserResponse(new_user)),
             users |-> Append(users, new_user)]

\* the response and the user table after the request
register(username, email, password, salt) ==
    IF \E u \in Range(users) : u.username = username
    THEN [response |-> Response("register", 400, "Username already exists", 0, 0, <<>>),
          users |-> users]
    ELSE IF \E u \in Range(users) : u.email = email
    THEN [response |-> Response("register", 400, "Email already exists", 0, 0, <<>>),
          users |-> users]
    ELSE LET new_user == [id |-> MaxId(users) + 1,
                          username |-> username,
                          email |-> email,
                          hashed_password |-> hash_password(password, salt)]
         IN [response |-> Response("register", 201, "", 0, 0, UserResponse(new_user)),
             users |-> Append(users, new_user)]

\* the salt is fresh for every hash
Register(user_data) ==
    /\ Len(users) < MaxUsers
    /\ LET r == register(user_data.username, user_data.email,
                         user_data.password, Len(users) + 1)
       IN /\ users' = r.users
          /\ last' = r.response
          /\ accounts' = IF r.response.status = 201
                         THEN accounts \cup {[id |-> r.response.body.id,
                                              username |-> user_data.username,
                                              email |-> user_data.email,
                                              password |-> user_data.password]}
                         ELSE accounts
    /\ UNCHANGED <<notes, noteSeq, dialect, now, tokens, sessions, deleted>>

----------------------------------------------------------------------------
(* POST /login *)

UserByUsername(username) ==
    SeqFilter(users, { u \in Range(users) : u.username = username })

\* login telling an unknown username from a wrong password
login_leaky(username, password) ==
    LET found == UserByUsername(username) IN
    IF found = <<>>
    THEN Response("login", 401, "User not found", 0, 0, <<>>)
    ELSE LET user == found[1] IN
         IF ~verify_password(password, user.hashed_password)
         THEN Response("login", 401, "Incorrect username or password", 0, 0, <<>>)
         ELSE Response("login", 200, "", 0, 0,
                       [access_token |-> create_access_token([user_id |-> Some(user.id)]),
                        token_type |-> "bearer"])

login(username, password) ==
    LET found == UserByUsername(username) IN
    IF found = <<>>
    THEN Response("login", 401, "Incorrect username or password", 0, 0, <<>>)
    ELSE LET user == found[1] IN
         IF ~verify_password(password, user.hashed_password)
         THEN Response("login", 401, "Incorrect username or password", 0, 0, <<>>)
         ELSE Response("login", 200, "", 0, 0,
                       [access_token |-> create_access_token([user_id |-> Some(user.id)]),
                        token_type |-> "bearer"])

\* keep: whether the client keeps the token it was given
Login(username, password, keep) ==
    /\ last' = login(username, password)
    /\ tokens' = IF keep /\ last'.status = 200
                 THEN tokens \cup {[token |-> last'.body.access_token,
                                    username |-> username,
                                    issued_at |-> now]}
                 ELSE tokens
    /\ Cardinality(tokens') <= MaxTokens
    /\ UNCHANGED <<users, notes, noteSeq, dialect, now, accounts,
                   sessions, deleted>>

----------------------------------------------------------------------------
(* NoteCreate: the request-body schema and its validator *)

RECURSIVE lstrip(_)
lstrip(v) ==
    IF v # <<>> /\ Head(v) \in Whitespace THEN lstrip(Tail(v)) ELSE v

RECURSIVE rstrip(_)
rstrip(v) ==
    IF v # <<>> /\ v[Len(v)] \in Whitespace
    THEN rstrip(SubSeq(v, 1, Len(v) - 1))
    ELSE v

strip(v) == rstrip(lstrip(v))

\* the validator without its strip: only the empty string is refused
content_must_not_be_empty_no_strip(v) ==
    IF v = <<>>
    THEN "Value error, Content cannot be empty"
    ELSE ""

\* "" when v is accepted (and returned as it is), else the error
content_must_not_be_empty(v) ==
    IF v = <<>> \/ strip(v) = <<>>
    THEN "Value error, Content cannot be empty"
    ELSE ""

NoteCreateError(body) ==
    IF body.content = None THEN "Field required"
    ELSE IF body.content[1].t # "str" THEN "Input should be a valid string"
    ELSE content_must_not_be_empty(body.content[1].v)

\* the validated model: defaults filled in
NoteCreate(body) ==
    [content |-> body.content[1].v,
     is_completed |-> IF body.is_completed = None THEN FALSE
                      ELSE body.is_completed[1],
     tags |-> body.tags]

----------------------------------------------------------------------------
(* The note handlers.  Each resolves the caller first (get_current_user),  *)
(* then validates the body, then runs.                                      *)

NoteById(note_id) == SeqFilter(notes, { n \in Range(notes) : n.id = note_id })

\* the primary key the database gives an inserted note
NewNoteId ==
    IF dialect = "sqlite" THEN MaxId(notes) + 1 ELSE noteSeq + 1

\* the table after INSERT, kept in primary-key order
Insert(rows, row) ==
    SeqFilter(rows, { r \in Range(rows) : r.id < row.id }) \o <<row>>
        \o SeqFilter(rows, { r \in Range(rows) : r.id > row.id })

\* create_note linking every note to the first user instead of the caller
create_note_first_user(credentials, body) ==
    LET auth == get_current_user(credentials) IN
    IF auth.kind # "user"
    THEN [response |-> AuthFailure("create_note", auth, 0),
          notes |-> notes, noteSeq |-> noteSeq]
    ELSE IF NoteCreateError(body) # ""
    THEN [response |-> Response("create_note", 422, NoteCreateError(body),
                                auth.user_id[1], 0, <<>>),
          notes |-> notes, noteSeq |-> noteSeq]
    ELSE LET note_input == NoteCreate(body)
             note == [id |-> NewNoteId,
                      content |-> note_input.content,
                      is_completed |-> note_input.is_completed,
                      tags |-> note_input.tags,
                      created_at |-> now,
                      updated_at |-> now,
                      user_id |-> 1]
         IN [response |-> Response("create_note", 201, "", auth.user_id[1],
                                   note.id, note),
             notes |-> Insert(notes, note),
             noteSeq |-> IF dialect = "sqlite" THEN noteSeq ELSE noteSeq + 1]

\* the response, the note table and the id sequence after the request
create_note(credentials, body) ==
    LET auth == get_current_user(credentials) IN
    IF auth.kind # "user"
    THEN [response |-> AuthFailure("create_note", auth, 0),
          notes |-> notes, noteSeq |-> noteSeq]
    ELSE IF NoteCreateError(body) # ""
    THEN [response |-> Response("create_note", 422, NoteCreateError(body),
                                auth.user_id[1], 0, <<>>),
          notes |-> notes, noteSeq |-> noteSeq]
    ELSE LET note_input == NoteCreate(body)
             note == [id |-> NewNoteId,
                      content |-> note_input.content,
                      is_completed |-> note_input.is_completed,
                      tags |-> note_input.tags,
                      created_at |-> now,
                      updated_at |-> now,
                      user_id |-> auth.user_id[1]]
         IN [response |-> Response("create_note", 201, "", auth.user_id[1],
                                   note.id, note),
             notes |-> Insert(notes, note),
             noteSeq |-> IF dialect = "sqlite" THEN noteSeq ELSE noteSeq + 1]

CreateNote(credentials, body) ==
    /\ NewNoteId <= MaxNoteId
    /\ LET r == create_note(credentials, body)
       IN /\ notes' = r.notes
          /\ noteSeq' = r.noteSeq
          /\ last' = r.response
    /\ UNCHANGED <<users, dialect, now, tokens, accounts, sessions, deleted>>

\* get_notes without its where clause
get_notes_unfiltered(credentials) ==
    LET auth == get_current_user(credentials) IN
    IF auth.kind # "user"
    THEN AuthFailure("get_notes", auth, 0)
    ELSE Response("get_notes", 200, "", auth.user_id[1], 0, notes)

get_notes(credentials) ==
    LET auth == get_current_user(credentials) IN
    IF auth.kind # "user"
    THEN AuthFailure("get_notes", auth, 0)
    ELSE Response("get_notes", 200, "", auth.user_id[1], 0,
                  SeqFilter(notes, { n \in Range(notes) :
                                        n.user_id = auth.user_id[1] }))

GetNotes(credentials) ==
    /\ last' = get_notes(credentials)
    /\ UNCHANGED <<users, notes, noteSeq, dialect, now, tokens, accounts,
                   sessions, deleted>>

\* get_note answering 403 for whatever is not the caller's, absent notes too
get_note_owner_first(credentials, note_id) ==
    LET auth == get_current_user(credentials)
        note == NoteById(note_id)
    IN
    IF auth.kind # "user"
    THEN AuthFailure("get_note", auth, note_id)
    ELSE IF note = <<>> \/ note[1].user_id # auth.user_id[1]
    THEN Response("get_note", 403, "Not authorized to access this note",
                  auth.user_id[1], note_id, <<>>)
    ELSE Response("get_note", 200, "", auth.user_id[1], note_id, note[1])

get_note(credentials, note_id) ==
    LET auth == get_current_user(credentials)
        note == NoteById(note_id)
    IN
    IF auth.kind # "user"
    THEN AuthFailure("get_note", auth, note_id)
    ELSE IF note = <<>>
    THEN Response("get_note", 404, "Note not found", auth.user_id[1], note_id, <<>>)
    ELSE IF note[1].user_id # auth.user_id[1]
    THEN Response("get_note", 403, "Not authorized to access this note",
                  auth.user_id[1], note_id, <<>>)
    ELSE Response("get_note", 200, "", auth.user_id[1], note_id, note[1])

GetNote(credentials, note_id) ==
    /\ last' = get_note(credentials, note_id)
    /\ UNCHANGED <<users, notes, noteSeq, dialect, now, tokens, accounts,
                   sessions, deleted>>

\* the table after UPDATE of the row with this note's id
Replace(rows, row) ==
    [i \in 1..Len(rows) |-> IF rows[i].id = row.id THEN row ELSE rows[i]]

\* update_note writing the fields before its ownership check
update_note_write_first(credentials, note_id, body) ==
    LET auth == get_current_user(credentials)
        note == NoteById(note_id)
    IN
    IF auth.kind # "user"
    THEN [response |-> AuthFailure("update_note", auth, note_id), notes |-> notes]
    ELSE IF NoteCreateError(body) # ""
    THEN [response |-> Response("update_note", 422, NoteCreateError(body),
                                auth.user_id[1], note_id, <<>>),
          notes |-> notes]
    ELSE IF note = <<>>
    THEN [response |-> Response("update_note", 404, "Note not found",
                                auth.user_id[1], note_id, <<>>),
          notes |-> notes]
    ELSE LET note_update == NoteCreate(body)
             updated == [note[1] EXCEPT !.content = note_update.content,
                                        !.is_completed = note_update.is_completed,
                                        !.tags = note_update.tags]
         IN [response |-> IF note[1].user_id # auth.user_id[1]
                          THEN Response("update_note", 403,
                                        "Not authorized to update this note",
                                        auth.user_id[1], note_id, <<>>)
                          ELSE Response("update_note", 200, "", auth.user_id[1],
                                        note_id, updated),
             notes |-> Replace(notes, updated)]

\* the response and the note table after the request
update_note(credentials, note_id, body) ==
    LET auth == get_current_user(credentials)
        note == NoteById(note_id)
    IN
    IF auth.kind # "user"
    THEN [response |-> AuthFailure("update_note", auth, note_id), notes |-> notes]
    ELSE IF NoteCreateError(body) # ""
    THEN [response |-> Response("update_note", 422, NoteCreateError(body),
                                auth.user_id[1], note_id, <<>>),
          notes |-> notes]
    ELSE IF note = <<>>
    THEN [response |-> Response("update_note", 404, "Note not found",
                                auth.user_id[1], note_id, <<>>),
          notes |-> notes]
    ELSE IF note[1].user_id # auth.user_id[1]
    THEN [response |-> Response("update_note", 403,
                                "Not authorized to update this note",
                                auth.user_id[1], note_id, <<>>),
          notes |-> notes]
    ELSE LET note_update == NoteCreate(body)
             updated == [note[1] EXCEPT !.content = note_update.content,
                                        !.is_completed = note_update.is_completed,
                                        !.tags = note_update.tags]
         IN [response |-> Response("update_note", 200, "", auth.user_id[1],
                                   note_id, updated),
             notes |-> Replace(notes, updated)]

UpdateNote(credentials, note_id, body) ==
    /\ LET r == update_note(credentials, note_id, body)
       IN /\ notes' = r.notes
          /\ last' = r.response
    /\ UNCHANGED <<users, noteSeq, dialect, now, tokens, accounts,
                   sessions, deleted>>

DeleteConfirmation(note_id) ==
    [message |-> "Note deleted successfully", id |-> note_id]

\* delete_note removing every note of the caller
delete_note_all_of_owner(credentials, note_id) ==
    LET auth == get_current_user(credentials)
        note == NoteById(note_id)
    IN
    IF auth.kind # "user"
    THEN [response |-> AuthFailure("delete_note", auth, note_id), notes |-> notes]
    ELSE IF note = <<>>
    THEN [response |-> Response("delete_note", 404, "Note not found",
                                auth.user_id[1], note_id, <<>>),
          notes |-> notes]
    ELSE IF note[1].user_id # auth.user_id[1]
    THEN [response |-> Response("delete_note", 403,
                                "Not authorized to delete this note",
                                auth.user_id[1], note_id, <<>>),
          notes |-> notes]
    ELSE [response |-> Response("delete_note", 200, "", auth.user_id[1], note_id,
                                DeleteConfirmation(note_id)),
          notes |-> SeqFilter(notes, { n \in Range(notes) :
                                         n.user_id # auth.user_id[1] })]

\* the response and the note table after the request
delete_note(credentials, note_id) ==
    LET auth == get_current_user(credentials)
        note == NoteById(note_id)
    IN
    IF auth.kind # "user"
    THEN [response |-> AuthFailure("delete_note", auth, note_id), notes |-> notes]
    ELSE IF note = <<>>
    THEN [response |-> Response("delete_note", 404, "Note not found",
                                auth.user_id[1], note_id, <<>>),
          notes |-> notes]
    ELSE IF note[1].user_id # auth.user_id[1]
    THEN [response |-> Response("delete_note", 403,
                                "Not authorized to delete this note",
                                auth.user_id[1], note_id, <<>>),
          notes |-> notes]
    ELSE [response |-> Response("delete_note", 200, "", auth.user_id[1], note_id,
                                DeleteConfirmation(note_id)),
          notes |-> SeqFilter(notes, { n \in Range(notes) : n.id # note_id })]

DeleteNote(credentials, note_id) ==
    /\ LET r == delete_note(credentials, note_id)
       IN /\ notes' = r.notes
          /\ last' = r.response
          /\ deleted' = IF r.response.status = 200
                        THEN deleted \cup {note_id}
                        ELSE deleted
    /\ UNCHANGED <<users, noteSeq, dialect, now, tokens, accounts, sessions>>

----------------------------------------------------------------------------
(* Time passes *)

Advance(t) ==
    /\ t > now
    /\ now' = t
    /\ UNCHANGED <<users, notes, noteSeq, dialect, tokens, accounts, last,
                   sessions, deleted>>

----------------------------------------------------------------------------
(* What callers send as credentials *)

\* bearer tokens signed with the service's key, not expired, naming a user id
SignedCredentials ==
    { Some(Token(SECRET_KEY, Some(i), now + ACCESS_TOKEN_EXPIRE_MINUTES)) :
         i \in 1..(MaxUsers + 1) }

\* no header, not a token, another key, expired, no user_id, user_id 0
UnusableCredentials ==
    { None,
      Some(Garbage),
      Some(Token("another-secret", Some(1), now + ACCESS_TOKEN_EXPIRE_MINUTES)),
      Some(Token(SECRET_KEY, Some(1), now)),
      Some(Token(SECRET_KEY, None, now + ACCESS_TOKEN_EXPIRE_MINUTES)),
      Some(Token(SECRET_KEY, Some(0), now + ACCESS_TOKEN_EXPIRE_MINUTES)) }

\* the tokens /login gave out, as they are or with the signature damaged
HeldCredentials ==
    { Some(w.token) : w \in tokens }
    \cup { Some([w.token EXCEPT !.key = "tampered"]) : w \in tokens }
    \cup {None, Some(Garbage)}

\* instants around a token's issue and around its expiry
AuthInstants ==
    (0..MaxDrift)
    \cup ((ACCESS_TOKEN_EXPIRE_MINUTES - MaxDrift)
              ..(ACCESS_TOKEN_EXPIRE_MINUTES + MaxDrift))

----------------------------------------------------------------------------
(* The service under arbitrary callers *)

Next ==
    \/ \E r \in SomeRegistrations : Register(r)
    \/ \E c \in SignedCredentials, body \in NoteInputs : CreateNote(c, body)
    \/ \E c \in UnusableCredentials, body \in ProbeNoteInputs : CreateNote(c, body)
    \/ \E c \in SignedCredentials \cup UnusableCredentials : GetNotes(c)
    \/ \E c \in SignedCredentials \cup UnusableCredentials, id \in NoteIds :
          GetNote(c, id)
    \/ \E c \in SignedCredentials, id \in NoteIds, body \in NoteInputs :
          UpdateNote(c, id, body)
    \/ \E c \in UnusableCredentials, id \in NoteIds, body \in ProbeNoteInputs :
          UpdateNote(c, id, body)
    \/ \E c \in SignedCredentials \cup UnusableCredentials, id \in NoteIds :
          DeleteNote(c, id)
    \/ \E t \in 0..MaxTime : Advance(t)

Spec == Init /\ [][Next]_vars

(* Registration, login and the life of the tokens login gives out *)

AuthNext ==
    \/ \E r \in Registrations : Register(r)
    \/ \E username \in Usernames, password \in Passwords :
          Login(username, password, TRUE)
    \/ \E c \in HeldCredentials : GetNotes(c)
    \/ \E t \in AuthInstants : Advance(t)

SpecAuth == Init /\ [][AuthNext]_vars

----------------------------------------------------------------------------
(* Vocabulary of the properties *)

\* the bearer credential of a caller logged in as user u: signed by the
\* service, not expired
CredFor(u) ==
    Some(Token(SECRET_KEY, Some(u), now + ACCESS_TOKEN_EXPIRE_MINUTES))

Registered == { u.id : u \in Range(users) }

AnyCredentials == SignedCredentials \cup UnusableCredentials

\* what the ownership gate owes a caller u addressing note id
Gate(u, id) ==
    IF \A n \in Range(notes) : n.id # id THEN 404
    ELSE IF \E n \in Range(notes) : n.id = id /\ n.user_id # u THEN 403
    ELSE 200

----------------------------------------------------------------------------
(* The ownership gate of the three single-note handlers, for PUT bodies   *)
(* drawn from a given set                                                 *)

GateHolds(bodies) ==
    \A u \in Registered, id \in NoteIds :
        /\ get_note(CredFor(u), id).status = Gate(u, id)
        /\ delete_note(CredFor(u), id).response.status = Gate(u, id)
        /\ \A body \in bodies :
              update_note(CredFor(u), id, body).response.status = Gate(u, id)

(* C1: GET, PUT and DELETE /notes/{id} by an authenticated user U answer   *)
(* 404 when no note has that id (whoever U is), 403 when the note exists   *)
(* and belongs to another user, and 200 only when it exists and belongs to *)
(* U.  As amended: for PUT this holds of requests whose body passes         *)
(* validation; a PUT with an invalid body is answered 422 before either    *)
(* check.                                                                   *)
C1_GateOrder == GateHolds(ValidNoteInputs)

\* C1 as stated: every PUT, whatever its body
C1_GateOrderAnyBody == GateHolds(NoteInputs)

\* a PUT was refused 403: the note exists and is another user's
C1_Witness ==
    /\ last.op = "update_note"
    /\ last.status = 403
    /\ last.uid \in Registered
    /\ \E n \in Range(notes) : n.id = last.note_id /\ n.user_id # last.uid

----------------------------------------------------------------------------
(* Refused requests and the steps that change a stored note *)

RefusedChangesNothing ==
    \A c \in AnyCredentials, id \in NoteIds :
        /\ delete_note(c, id).response.status \in {403, 404}
              => delete_note(c, id).notes = notes
        /\ \A body \in NoteInputs :
              update_note(c, id, body).response.status \in {403, 404}
                 => update_note(c, id, body).notes = notes

OwnerStep ==
    /\ \A n \in Range(notes) :
          n \notin Range(notes')
             => /\ last'.status = 200
                /\ \/ DeleteNote(CredFor(n.user_id), n.id)
                   \/ \E body \in ValidNoteInputs :
                         UpdateNote(CredFor(n.user_id), n.id, body)
    /\ (last'.op \in {"update_note", "delete_note"} /\ last'.status \in {403, 404})
          => UNCHANGED <<users, notes, noteSeq>>

(* C2: a PUT or DELETE that ends in 404 or 403 leaves every note and every *)
(* user as they were, and every change or removal of a note is the effect  *)
(* of a successful PUT or DELETE carrying a credential of the note's owner. *)
C2_OnlyOwnerMutates == [](RefusedChangesNothing) /\ [][OwnerStep]_vars

\* a DELETE was refused 403 and the note is still there
C2_Witness ==
    /\ last.op = "delete_note"
    /\ last.status = 403
    /\ \E n \in Range(notes) : n.id = last.note_id /\ n.user_id # last.uid

----------------------------------------------------------------------------
(* C3: GET /notes as user A returns exactly the stored notes whose user_id *)
(* is A's id, each once, and no note of another user.                       *)

C3_ListIsolation ==
    /\ \A u \in Registered :
          LET r == get_notes(CredFor(u)) IN
          /\ r.status = 200
          /\ Range(r.body) = { n \in Range(notes) : n.user_id = u }
          /\ Len(r.body) = Cardinality({ n \in Range(notes) : n.user_id = u })
    /\ (last.op = "get_notes" /\ last.status = 200)
          => /\ last.uid \in Registered
             /\ Range(last.body) = { n \in Range(notes) : n.user_id = last.uid }

\* two users own a note each and one of them listed theirs
C3_Witness ==
    /\ last.op = "get_notes"
    /\ last.status = 200
    /\ Len(last.body) = 1
    /\ \E n \in Range(notes) : n.user_id # last.uid

----------------------------------------------------------------------------
(* The id a client was given when it registered a username *)

IdOf(username) == { a.id : a \in { b \in accounts : b.username = username } }

(* C4: a token issued at time t for user X carries the expiry t + 30       *)
(* minutes; verified strictly before the expiry it yields X's id, and      *)
(* verified at or after the expiry it fails with 401 "Token has expired"   *)
(* and yields no identity.                                                  *)
C4_TokenExpiry ==
    /\ \A a \in accounts :
          LET r == login(a.username, a.password) IN
          /\ r.status = 200
          /\ r.body.access_token.exp = now + 30
          /\ r.body.access_token.user_id = Some(a.id)
    /\ \A w \in tokens :
          LET v == verify_token(w.token)
              who == get_current_user(Some(w.token))
          IN
          /\ w.token.exp = w.issued_at + 30
          /\ now < w.issued_at + 30
                => /\ v.kind = "payload"
                   /\ v.user_id # None
                   /\ {v.user_id[1]} = IdOf(w.username)
                   /\ who.kind = "user"
                   /\ who.user_id = v.user_id
          /\ now >= w.issued_at + 30
                => /\ v = HttpError(401, "Token has expired")
                   /\ who = HttpError(401, "Token has expired")

\* a token issued at time 0 was presented at minute 30 and refused as expired
C4_Witness ==
    /\ now = 30
    /\ \E w \in tokens : w.issued_at = 0
    /\ \A w \in tokens : w.issued_at = 0
    /\ last.op = "get_notes"
    /\ last.status = 401
    /\ last.detail = "Token has expired"

----------------------------------------------------------------------------
(* Tokens that are not a token, or whose signature does not verify *)

InvalidTokens ==
    { Garbage,
      Token("another-secret", Some(1), now + ACCESS_TOKEN_EXPIRE_MINUTES),
      Token("tampered", Some(1), now + ACCESS_TOKEN_EXPIRE_MINUTES) }

(* C5: verifying a token whose signature or structure is invalid fails     *)
(* with 401 "Invalid token"; it yields no identity and no other failure    *)
(* such as a 500.                                                           *)
C5_InvalidTokenIs401 ==
    [][\A t \in InvalidTokens :
          GetNotes(Some(t)) => /\ last'.status = 401
                               /\ last'.detail = "Invalid token"]_vars

----------------------------------------------------------------------------
(* Credentials that resolve to no user: none, expired, without user_id,   *)
(* naming an id with no user row                                           *)

UnauthenticatedCredentials ==
    {None, Some(Token(SECRET_KEY, None, now + ACCESS_TOKEN_EXPIRE_MINUTES))}
    \cup { Some(Token(SECRET_KEY, Some(u), e)) :
              u \in 1..(MaxUsers + 1), e \in 0..now }
    \cup { Some(Token(SECRET_KEY, Some(u), now + ACCESS_TOKEN_EXPIRE_MINUTES)) :
              u \in (1..(MaxUsers + 1)) \ Registered }

----------------------------------------------------------------------------
(* What login owes every username and password, and what a login step    *)
(* leaves alone                                                            *)

LoginExact ==
    /\ \A username \in Usernames, password \in Passwords :
          LET r == login(username, password)
              match == { a \in accounts : a.username = username
                                          /\ a.password = password }
          IN
          /\ r.status \in {200, 401}
          /\ r.status = 200 <=> match # {}
          /\ r.status = 200
                => /\ {r.body.access_token.user_id} = { Some(a.id) : a \in match }
                   /\ r.body.access_token.key = SECRET_KEY
                   /\ r.body.token_type = "bearer"
    /\ \A u \in Range(users), a \in accounts :
          u.hashed_password # a.password

LoginStep ==
    \A username \in Usernames, password \in Passwords :
        Login(username, password, TRUE)
           => UNCHANGED <<users, notes, noteSeq, accounts>>

(* C7: POST /login returns a token exactly when the username is registered *)
(* and the password is the one given at that user's registration; the      *)
(* token's user_id is that user's id; no stored hash equals a plaintext;   *)
(* login leaves the store as it was.                                        *)
C7_LoginExact == [](LoginExact) /\ [][LoginStep]_vars

\* with two users registered, one of them logged in
C7_Witness ==
    /\ last.op = "login"
    /\ last.status = 200
    /\ Cardinality(accounts) = 2

----------------------------------------------------------------------------
(* The two ways a login fails *)

UnknownUsername(username) == \A a \in accounts : a.username # username

WrongPassword(username, password) ==
    \E a \in accounts : a.username = username /\ a.password # password

(* C8: a login that fails because the username is unknown and one that     *)
(* fails because the password is wrong get the same response (401 and the  *)
(* same message), in the same or in different store states.                 *)
C8_FailedLoginsAlike ==
    /\ \A u1 \in Usernames, u2 \in Usernames,
          p1 \in Passwords, p2 \in Passwords :
          (UnknownUsername(u1) /\ WrongPassword(u2, p2))
             => /\ login(u1, p1).status = 401
                /\ login(u1, p1) = login(u2, p2)
    /\ (last.op = "login" /\ last.status # 200)
          => \A u \in Usernames, p \in Passwords :
                (UnknownUsername(u) \/ WrongPassword(u, p)) => login(u, p) = last

\* a login failed while one username was registered and the other was not
C8_Witness ==
    /\ last.op = "login"
    /\ last.status = 401
    /\ Cardinality(accounts) = 1

----------------------------------------------------------------------------
(* C9: POST /register with a username or an email of a stored user returns *)
(* 400 and leaves the store as it was; otherwise it returns 201 and adds   *)
(* exactly one user, with a fresh id; no two stored users ever share a     *)
(* username or an email.                                                    *)

C9_RegistrationUnique ==
    /\ \A i \in 1..Len(users), j \in 1..Len(users) :
          i # j => /\ users[i].username # users[j].username
                   /\ users[i].email # users[j].email
                   /\ users[i].id # users[j].id
    /\ \A d \in Registrations :
          LET r == register(d.username, d.email, d.password, Len(users) + 1) IN
          IF \E u \in Range(users) : u.username = d.username \/ u.email = d.email
          THEN /\ r.response.status = 400
               /\ r.users = users
          ELSE /\ r.response.status = 201
               /\ Len(r.users) = Len(users) + 1
               /\ SubSeq(r.users, 1, Len(users)) = users
               /\ r.users[Len(r.users)].username = d.username
               /\ r.users[Len(r.users)].email = d.email
               /\ r.users[Len(r.users)].id \notin { u.id : u \in Range(users) }
               /\ r.response.body = [id |-> r.users[Len(r.users)].id,
                                     username |-> d.username,
                                     email |-> d.email]

\* a registration with a new username was refused for its email
C9_Witness ==
    /\ last.op = "register"
    /\ last.status = 400
    /\ last.detail = "Email already exists"
    /\ Len(users) = 1

----------------------------------------------------------------------------
(* C10: a successful DELETE /notes/{id} by the owner removes that note and *)
(* no other and returns a confirmation carrying the deleted id; right      *)
(* after it GET /notes/{id} by the same user is 404 and GET /notes does    *)
(* not include the note.                                                    *)

C10_DeleteRemovesOne ==
    /\ \A u \in Registered, id \in NoteIds :
          LET r == delete_note(CredFor(u), id) IN
          r.response.status = 200
             => /\ r.response.body.id = id
                /\ \A n \in Range(r.notes) : n.id # id
                /\ \A n \in Range(notes) : n.id # id => n \in Range(r.notes)
                /\ Len(r.notes) = Len(notes) - 1
    /\ (last.op = "delete_note" /\ last.status = 200)
          => /\ last.body.id = last.note_id
             /\ get_note(CredFor(last.uid), last.note_id).status = 404
             /\ get_notes(CredFor(last.uid)).status = 200
             /\ \A n \in Range(get_notes(CredFor(last.uid)).body) :
                   n.id # last.note_id

\* one of two stored notes was deleted; the other is still there
C10_Witness ==
    /\ last.op = "delete_note"
    /\ last.status = 200
    /\ Len(notes) = 1

----------------------------------------------------------------------------
\* the stored row with this id in a note table
RowOf(rows, note_id) ==
    CHOOSE n \in Range(rows) : n.id = note_id

(* C11: a successful PUT /notes/{id} by the owner overwrites the note's    *)
(* content, completion flag and tags with the supplied values (flag false  *)
(* and tags none when omitted), and sets the note's updated_at to the time *)
(* of the update.                                                           *)
C11_UpdateRefreshes ==
    \A u \in Registered, id \in NoteIds, body \in ValidNoteInputs :
        LET r == update_note(CredFor(u), id, body) IN
        r.response.status = 200
           => LET stored == RowOf(r.notes, id) IN
              /\ stored.content = body.content[1].v
              /\ stored.is_completed = (body.is_completed = Some(TRUE))
              /\ stored.tags = body.tags
              /\ stored.updated_at = now
              /\ r.response.body = stored

----------------------------------------------------------------------------
(* What the validation of the note body owes callers drawn from a given   *)
(* set of credentials                                                      *)

ContentNeverBlank == \A n \in Range(notes) : strip(n.content) # <<>>

InvalidBodyIs422(callers) ==
    \A c \in callers, body \in InvalidNoteInputs :
        /\ create_note(c, body).response.status = 422
        /\ create_note(c, body).notes = notes
        /\ create_note(c, body).noteSeq = noteSeq
        /\ \A id \in NoteIds :
              /\ update_note(c, id, body).response.status = 422
              /\ update_note(c, id, body).notes = notes

InvalidBodyChangesNothing ==
    \A c \in AnyCredentials, body \in InvalidNoteInputs :
        /\ create_note(c, body).response.status \notin {200, 201}
        /\ create_note(c, body).notes = notes
        /\ create_note(c, body).noteSeq = noteSeq
        /\ \A id \in NoteIds :
              /\ update_note(c, id, body).response.status \notin {200, 201}
              /\ update_note(c, id, body).notes = notes

----------------------------------------------------------------------------
(* Ownership of the stored notes, and what the handlers leave of a note   *)

\* the fields of a note that are set once, at creation
Identity(n) == [id |-> n.id, user_id |-> n.user_id, created_at |-> n.created_at]

OwnedFromCreation ==
    /\ \A n \in Range(notes) : n.user_id \in Registered
    /\ \A u \in Registered, body \in ValidNoteInputs :
          LET r == create_note(CredFor(u), body) IN
          NewNoteId <= MaxNoteId
             => /\ r.response.status = 201
                /\ Range(r.notes) = Range(notes) \cup {r.response.body}
                /\ Len(r.notes) = Len(notes) + 1
                /\ r.response.body.user_id = u
                /\ r.response.body.created_at = now
                /\ r.response.body.is_completed
                      = (IF body.is_completed = None THEN FALSE
                         ELSE body.is_completed[1])
                /\ r.response.body.tags = body.tags
    /\ \A c \in AnyCredentials, id \in NoteIds, body \in NoteInputs :
          LET r == update_note(c, id, body) IN
          /\ Len(r.notes) = Len(notes)
          /\ \A i \in 1..Len(notes) : Identity(r.notes[i]) = Identity(notes[i])

IdentityStep ==
    /\ \A n \in Range(notes), m \in Range(notes') :
          m.id = n.id => Identity(m) = Identity(n)
    /\ \A u \in Range(users) : u \in Range(users')

(* C13: POST /notes by authenticated user U stores a note whose user_id is *)
(* U's id, with completion flag false and no tags unless supplied; in      *)
(* every reachable state each stored note's user_id is the id of a stored  *)
(* user; no operation, PUT in particular, changes a note's user_id, id or  *)
(* created_at, and no user is ever removed.                                 *)
C13_OneOwnerForLife == [](OwnedFromCreation) /\ [][IdentityStep]_vars

\* the second user updated a note of theirs, created at an earlier time
C13_Witness ==
    /\ last.op = "update_note"
    /\ last.status = 200
    /\ last.uid = 2
    /\ last.body.user_id = 2
    /\ last.body.created_at < now

----------------------------------------------------------------------------
(* The end of a note's life *)

\* no stored note has the id, and every authenticated caller is told so
Gone(id) ==
    /\ \A n \in Range(notes) : n.id # id
    /\ \A u \in Registered :
          /\ get_note(CredFor(u), id).status = 404
          /\ delete_note(CredFor(u), id).response.status = 404
          /\ \A body \in ValidNoteInputs :
                update_note(CredFor(u), id, body).response.status = 404

(* C15: once DELETE /notes/{id} has succeeded, then after any further      *)
(* operations, creations of notes by any user included, every GET, PUT or  *)
(* DELETE addressed to that id by an authenticated user returns 404: the   *)
(* id is never given to a later note.                                       *)
C15_DeletedIsTerminal == \A id \in deleted : Gone(id)

----------------------------------------------------------------------------
(* Overlapping requests.  Each statement of a handler is one step; between *)
(* two steps of a request, steps of the other requests may come.           *)

\* the handler has returned or raised: the response held by the session
\* goes out and the session is closed; the client notes the account it was
\* given
Respond(s) ==
    /\ sessions[s].pc = "done"
    /\ accounts' = IF sessions[s].op = "register"
                      /\ sessions[s].response.status = 201
                   THEN accounts \cup {[id |-> sessions[s].response.body.id,
                                        username |-> sessions[s].request.username,
                                        email |-> sessions[s].request.email,
                                        password |-> sessions[s].request.password]}
                   ELSE accounts
    /\ sessions' = [sessions EXCEPT ![s] = Idle]
    /\ UNCHANGED <<users, notes, noteSeq, dialect, now, tokens, last, deleted>>

(* POST /register, statement by statement *)

\* INSERT INTO user ... COMMIT: the unique indexes on username and email
\* refuse a duplicate (IntegrityError), which no handler of the request
\* catches
insert_user(username, email, password, salt) ==
    IF \E u \in Range(users) : u.username = username \/ u.email = email
    THEN [response |-> Response("register", Unhandled("IntegrityError").status,
                                Unhandled("IntegrityError").detail, 0, 0, <<>>),
          users |-> users]
    ELSE LET new_user == [id |-> MaxId(users) + 1,
                          username |-> username,
                          email |-> email,
                          hashed_password |-> hash_password(password, salt)]
         IN [response |-> Response("register", 201, "", 0, 0, UserResponse(new_user)),
             users |-> Append(users, new_user)]

RegisterBegin(s, user_data) ==
    /\ sessions[s].pc = "idle"
    /\ Len(users) < MaxUsers
    /\ sessions' = [sessions EXCEPT ![s] =
                       [Idle EXCEPT !.op = "register",
                                    !.pc = "check_username",
                                    !.request = user_data]]
    /\ UNCHANGED <<users, notes, noteSeq, dialect, now, tokens, accounts,
                   last, deleted>>

RegisterCheckUsername(s) ==
    /\ sessions[s].op = "register"
    /\ sessions[s].pc = "check_username"
    /\ sessions' = [sessions EXCEPT ![s] =
          IF \E u \in Range(users) : u.username = sessions[s].request.username
          THEN [@ EXCEPT !.pc = "done",
                         !.response = Response("register", 400,
                                               "Username already exists", 0, 0, <<>>)]
          ELSE [@ EXCEPT !.pc = "check_email"]]
    /\ UNCHANGED <<users, notes, noteSeq, dialect, now, tokens, accounts,
                   last, deleted>>

RegisterCheckEmail(s) ==
    /\ sessions[s].op = "register"
    /\ sessions[s].pc = "check_email"
    /\ sessions' = [sessions EXCEPT ![s] =
          IF \E u \in Range(users) : u.email = sessions[s].request.email
          THEN [@ EXCEPT !.pc = "done",
                         !.response = Response("register", 400,
                                               "Email already exists", 0, 0, <<>>)]
          ELSE [@ EXCEPT !.pc = "commit"]]
    /\ UNCHANGED <<users, notes, noteSeq, dialect, now, tokens, accounts,
                   last, deleted>>

RegisterCommit(s) ==
    /\ sessions[s].op = "register"
    /\ sessions[s].pc = "commit"
    /\ LET r == insert_user(sessions[s].request.username,
                            sessions[s].request.email,
                            sessions[s].request.password, Len(users) + 1)
       IN /\ users' = r.users
          /\ sessions' = [sessions EXCEPT ![s] =
                             [@ EXCEPT !.pc = "done", !.response = r.response]]
    /\ UNCHANGED <<notes, noteSeq, dialect, now, tokens, accounts,
                   last, deleted>>

RegisterNext ==
    \/ \E s \in Sessions, r \in Registrations : RegisterBegin(s, r)
    \/ \E s \in Sessions : RegisterCheckUsername(s)
    \/ \E s \in Sessions : RegisterCheckEmail(s)
    \/ \E s \in Sessions : RegisterCommit(s)
    \/ \E s \in Sessions : Respond(s)

SpecRegister == Init /\ [][RegisterNext]_vars

----------------------------------------------------------------------------
(* C14: under any interleaving of concurrent POST /register requests every *)
(* request ends in 201 or in 400, never in another failure, and no two     *)
(* stored users share a username or an email.                               *)

C14_ConcurrentRegistration ==
    /\ \A s \in Sessions :
          (sessions[s].op = "register" /\ sessions[s].pc = "done")
             => sessions[s].response.status \in {201, 400}
    /\ \A i \in 1..Len(users), j \in 1..Len(users) :
          i # j => /\ users[i].username # users[j].username
                   /\ users[i].email # users[j].email

----------------------------------------------------------------------------
(* PUT /notes/{id} and DELETE /notes/{id}, statement by statement *)

\* no request is in flight
Quiet == \A s \in Sessions : sessions[s].pc = "idle"

\* another session is running this handler
Running(op, s) ==
    \E o \in Sessions \ {s} : sessions[o].op = op

\* session.commit() of a loaded note whose attributes were assigned, merging
\* instead: a row that is gone is inserted again
flush_update_merge(rows, note, values) ==
    IF \A r \in Range(rows) : r.id # note.id
    THEN [error |-> "",
          rows |-> Insert(rows, [note EXCEPT !.content = values.content,
                                             !.is_completed = values.is_completed,
                                             !.tags = values.tags])]
    ELSE [error |-> "",
          rows |-> [i \in 1..Len(rows) |->
                       IF rows[i].id # note.id THEN rows[i]
                       ELSE [rows[i] EXCEPT !.content = values.content,
                                            !.is_completed = values.is_completed,
                                            !.tags = values.tags]]]

\* session.commit() of a loaded note whose attributes were assigned: the
\* unit of work issues UPDATE note SET <the columns whose value differs from
\* the loaded one> WHERE id = <the note's>, and none when no column differs;
\* an UPDATE that matches no row raises StaleDataError
flush_update(rows, note, values) ==
    IF /\ values.content = note.content
       /\ values.is_completed = note.is_completed
       /\ values.tags = note.tags
    THEN [error |-> "", rows |-> rows]
    ELSE IF \A r \in Range(rows) : r.id # note.id
    THEN [error |-> "StaleDataError", rows |-> rows]
    ELSE [error |-> "",
          rows |-> [i \in 1..Len(rows) |->
                       IF rows[i].id # note.id THEN rows[i]
                       ELSE [rows[i] EXCEPT
                               !.content = IF values.content # note.content
                                           THEN values.content ELSE @,
                               !.is_completed =
                                   IF values.is_completed # note.is_completed
                                   THEN values.is_completed ELSE @,
                               !.tags = IF values.tags # note.tags
                                        THEN values.tags ELSE @]]]

\* the dependencies of the request: the caller, then the body
UpdateBegin(s, credentials, note_id, body) ==
    /\ sessions[s].pc = "idle"
    /\ ~Running("update_note", s)
    /\ LET auth == get_current_user(credentials)
           uid == IF auth.kind = "user" THEN auth.user_id[1] ELSE 0
           begun == [Idle EXCEPT !.op = "update_note",
                                 !.request = [credentials |-> credentials,
                                              note_id |-> note_id,
                                              body |-> body,
                                              uid |-> uid]]
       IN sessions' = [sessions EXCEPT ![s] =
             IF auth.kind # "user"
             THEN [begun EXCEPT !.pc = "done",
                                !.response = AuthFailure("update_note", auth, note_id)]
             ELSE IF NoteCreateError(body) # ""
             THEN [begun EXCEPT !.pc = "done",
                                !.response = Response("update_note", 422,
                                                      NoteCreateError(body),
                                                      uid, note_id, <<>>)]
             ELSE [begun EXCEPT !.pc = "load"]]
    /\ UNCHANGED <<users, notes, noteSeq, dialect, now, tokens, accounts,
                   last, deleted>>

\* session.get(Note, note_id) and the two checks on what it returned
UpdateLoad(s) ==
    /\ sessions[s].op = "update_note"
    /\ sessions[s].pc = "load"
    /\ LET req == sessions[s].request
           note == NoteById(req.note_id)
       IN sessions' = [sessions EXCEPT ![s] =
             IF note = <<>>
             THEN [@ EXCEPT !.pc = "done",
                            !.response = Response("update_note", 404, "Note not found",
                                                  req.uid, req.note_id, <<>>)]
             ELSE IF note[1].user_id # req.uid
             THEN [@ EXCEPT !.pc = "done",
                            !.response = Response("update_note", 403,
                                                  "Not authorized to update this note",
                                                  req.uid, req.note_id, <<>>)]
             ELSE [@ EXCEPT !.pc = "commit", !.note = note]]
    /\ UNCHANGED <<users, notes, noteSeq, dialect, now, tokens, accounts,
                   last, deleted>>

\* the three assignments, session.add(note), session.commit()
UpdateCommit(s) ==
    /\ sessions[s].op = "update_note"
    /\ sessions[s].pc = "commit"
    /\ LET req == sessions[s].request
           r == flush_update(notes, sessions[s].note[1], NoteCreate(req.body))
       IN /\ notes' = r.rows
          /\ sessions' = [sessions EXCEPT ![s] =
                IF r.error # ""
                THEN [@ EXCEPT !.pc = "done",
                               !.response = Response("update_note",
                                                     Unhandled(r.error).status,
                                                     Unhandled(r.error).detail,
                                                     req.uid, req.note_id, <<>>)]
                ELSE [@ EXCEPT !.pc = "refresh"]]
    /\ UNCHANGED <<users, noteSeq, dialect, now, tokens, accounts,
                   last, deleted>>

\* session.refresh(note): the row is read again; InvalidRequestError when it
\* is gone
UpdateRefresh(s) ==
    /\ sessions[s].op = "update_note"
    /\ sessions[s].pc = "refresh"
    /\ LET req == sessions[s].request
           note == NoteById(req.note_id)
       IN sessions' = [sessions EXCEPT ![s] =
             IF note = <<>>
             THEN [@ EXCEPT !.pc = "done",
                            !.response = Response("update_note",
                                                  Unhandled("InvalidRequestError").status,
                                                  Unhandled("InvalidRequestError").detail,
                                                  req.uid, req.note_id, <<>>)]
             ELSE [@ EXCEPT !.pc = "done", !.note = note,
                            !.response = Response("update_note", 200, "", req.uid,
                                                  req.note_id, note[1])]]
    /\ UNCHANGED <<users, notes, noteSeq, dialect, now, tokens, accounts,
                   last, deleted>>

DeleteBegin(s, credentials, note_id) ==
    /\ sessions[s].pc = "idle"
    /\ ~Running("delete_note", s)
    /\ LET auth == get_current_user(credentials)
           uid == IF auth.kind = "user" THEN auth.user_id[1] ELSE 0
           begun == [Idle EXCEPT !.op = "delete_note",
                                 !.request = [credentials |-> credentials,
                                              note_id |-> note_id,
                                              uid |-> uid]]
       IN sessions' = [sessions EXCEPT ![s] =
             IF auth.kind # "user"
             THEN [begun EXCEPT !.pc = "done",
                                !.response = AuthFailure("delete_note", auth, note_id)]
             ELSE [begun EXCEPT !.pc = "load"]]
    /\ UNCHANGED <<users, notes, noteSeq, dialect, now, tokens, accounts,
                   last, deleted>>

DeleteLoad(s) ==
    /\ sessions[s].op = "delete_note"
    /\ sessions[s].pc = "load"
    /\ LET req == sessions[s].request
           note == NoteById(req.note_id)
       IN sessions' = [sessions EXCEPT ![s] =
             IF note = <<>>
             THEN [@ EXCEPT !.pc = "done",
                            !.response = Response("delete_note", 404, "Note not found",
                                                  req.uid, req.note_id, <<>>)]
             ELSE IF note[1].user_id # req.uid
             THEN [@ EXCEPT !.pc = "done",
                            !.response = Response("delete_note", 403,
                                                  "Not authorized to delete this note",
                                                  req.uid, req.note_id, <<>>)]
             ELSE [@ EXCEPT !.pc = "commit", !.note = note]]
    /\ UNCHANGED <<users, notes, noteSeq, dialect, now, tokens, accounts,
                   last, deleted>>

\* session.delete(note), session.commit(): DELETE FROM note WHERE id = ...
DeleteCommit(s) ==
    /\ sessions[s].op = "delete_note"
    /\ sessions[s].pc = "commit"
    /\ LET req == sessions[s].request
       IN /\ notes' = SeqFilter(notes, { n \in Range(notes) : n.id # req.note_id })
          /\ sessions' = [sessions EXCEPT ![s] =
                [@ EXCEPT !.pc = "done",
                          !.response = Response("delete_note", 200, "", req.uid,
                                                req.note_id,
                                                DeleteConfirmation(req.note_id))]]
          /\ deleted' = deleted \cup {req.note_id}
    /\ UNCHANGED <<users, noteSeq, dialect, now, tokens, accounts, last>>

\* the callers of the overlapping requests: the holders of a token for
\* each user id
RaceCredentials == { CredFor(u) : u \in 1..MaxUsers }

RaceNoteInputs == ValidNoteInputs \cup ProbeNoteInputs

\* accounts and notes are set up while no request is in flight; then one PUT
\* and one DELETE at a time overlap
RaceNext ==
    \/ Quiet /\ \E r \in SomeRegistrations : Register(r)
    \/ Quiet /\ \E c \in RaceCredentials, body \in ValidNoteInputs :
                   CreateNote(c, body)
    \/ \E s \in Sessions, c \in RaceCredentials, id \in NoteIds,
          body \in RaceNoteInputs : UpdateBegin(s, c, id, body)
    \/ \E s \in Sessions : UpdateLoad(s)
    \/ \E s \in Sessions : UpdateCommit(s)
    \/ \E s \in Sessions : UpdateRefresh(s)
    \/ \E s \in Sessions, c \in RaceCredentials, id \in NoteIds :
          DeleteBegin(s, c, id)
    \/ \E s \in Sessions : DeleteLoad(s)
    \/ \E s \in Sessions : DeleteCommit(s)
    \/ \E s \in Sessions : Respond(s)

SpecRace == Init /\ [][RaceNext]_vars

----------------------------------------------------------------------------
(* What an overlapping PUT and DELETE leave in the store *)

\* the content, flag and tags of every stored note are those of one body
NoMix ==
    \A n \in Range(notes) :
        \E body \in ValidNoteInputs :
            /\ n.content = NoteCreate(body).content
            /\ n.is_completed = NoteCreate(body).is_completed
            /\ n.tags = NoteCreate(body).tags

\* while the DELETE that removed a note has not yet answered, and after,
\* until a POST, the note is absent
DeletedStaysDeleted ==
    \A s \in Sessions :
        (/\ sessions[s].op = "delete_note"
         /\ sessions[s].pc = "done"
         /\ sessions[s].response.status = 200)
           => \A n \in Range(notes) : n.id # sessions[s].request.note_id

\* a row with an id that was not in the table comes from a POST /notes
NoResurrection ==
    \A n \in Range(notes') :
        (\A m \in Range(notes) : m.id # n.id)
           => /\ Quiet
              /\ last'.op = "create_note"
              /\ last'.status = 201
              /\ last'.body = n

\* a PUT that returns 200 returns a note that is in the store as it returns,
\* with the content, flag and tags of its body
ReportedPresent ==
    \A s \in Sessions :
        (/\ sessions[s].pc # "done"
         /\ sessions'[s].pc = "done"
         /\ sessions'[s].op = "update_note"
         /\ sessions'[s].response.status = 200)
           => /\ sessions'[s].response.body \in Range(notes')
              /\ sessions'[s].response.body.content
                    = NoteCreate(sessions'[s].request.body).content
              /\ sessions'[s].response.body.is_completed
                    = NoteCreate(sessions'[s].request.body).is_completed
              /\ sessions'[s].response.body.tags
                    = NoteCreate(sessions'[s].request.body).tags

(* C16: under any interleaving of a PUT and a DELETE on the same note by   *)
(* its owner, a note removed by the committed delete is not brought back   *)
(* by the update; no stored note holds a mix of the fields of two bodies;  *)
(* and the update reports success only with a note that is in the store as *)
(* it answers: the update that lost the race fails.                         *)
C16_UpdateDeleteRace ==
    [](NoMix /\ DeletedStaysDeleted) /\ [][NoResurrection /\ ReportedPresent]_vars

\* the owner's PUT loaded the note, the owner's DELETE removed it, and the
\* PUT then failed: both have finished, the note is gone
C16_Witness ==
    \E s \in Sessions, d \in Sessions :
        /\ sessions[s].op = "update_note"
        /\ sessions[s].pc = "done"
        /\ sessions[s].note # None
        /\ sessions[s].response.status = 500
        /\ sessions[d].op = "delete_note"
        /\ sessions[d].pc = "done"
        /\ sessions[d].response.status = 200
        /\ sessions[d].request.note_id = sessions[s].request.note_id
        /\ sessions[d].request.uid = sessions[s].request.uid
        /\ \A n \in Range(notes) : n.id # sessions[s].request.note_id

====
